---- MODULE Spec2Model ----
(***************************************************************************)
(* A model of main.py: one run of the activation-code tool, fetch -> parse *)
(* -> normalise -> select by time window -> deliver.                       *)
(*                                                                         *)
(* Encoding of the data.                                                   *)
(*   - An instant is counted in whole hours.  A datetime is a record       *)
(*     [d, h]: day number and hour of the day.                             *)
(*   - A timestamp string is [form, d, h]: form "sp" is the page's         *)
(*     "YYYY-MM-DD HH:MM:SS", form "iso" is isoformat()'s                  *)
(*     "YYYY-MM-DDTHH:MM:SS", form "bad" is a string strptime rejects.     *)
(*   - A line of the <pre> block is [ws, kind, parts, text]: ws says the   *)
(*     raw line carries surrounding whitespace; kind is "blank", "range"   *)
(*     (the line contains " - "; parts are the pieces between the          *)
(*     separators) or "text" (anything else).                              *)
(***************************************************************************)
EXTENDS Integers, Sequences, FiniteSets, TLC

VARIABLES
    AUTOMATIC_MODE,  \* the module-level flag, set from --automatic
    response,        \* what the HTTP GET yields: [status, page]
    now,             \* datetime.now(UTC) as read by main
    procs,           \* psutil.process_iter(): the process list
    window_list,     \* gw.getWindowsWithTitle(...): the matching windows
    fsWritable,      \* whether open("keys.json", "w") succeeds
    keysFile,        \* contents of keys.json, or NoFile
    writes,          \* files and clipboard written by this run, in order
    polls,           \* process and window checks made by this run, in order
    pc,              \* position of the run in main
    parsed_data,     \* build_cached_data's parsed_data
    temp_data,       \* main's temp_data
    cached_data,     \* main's cached_data
    correct_code,    \* main's correct_code
    running,         \* what is_filecxx_running returned
    keyTxt,          \* contents of key.txt, or NoFile
    clipboard,       \* the system clipboard
    gui,             \* window and keyboard actions simulated, in order
    alerts,          \* message boxes shown, in order
    gets,            \* HTTP GETs issued by this run
    exc,             \* the uncaught exception that ended the run, or "none"
    prev             \* the outcome of the previous run, or NoRun

vars == <<AUTOMATIC_MODE, response, now, procs, window_list, fsWritable,
          keysFile, writes, polls, pc, parsed_data, temp_data, cached_data,
          correct_code, running, keyTxt, clipboard, gui, alerts, gets, exc,
          prev>>

env == <<AUTOMATIC_MODE, response, now, procs, window_list>>
locals == <<parsed_data, temp_data, cached_data, correct_code, running>>

(***************************************************************************)
(* Bounds and program constants                                            *)
(***************************************************************************)
MaxLines == 4
MaxWindows == 2
MaxProcs == 3
MaxEntries == 2
OffsetHours == 8
HoursPerDay == 24

\* Python's None for a string-valued name, and for a name holding a value v
None == "None"
NoneList == [isNone |-> TRUE, val |-> <<>>]
NoneText == [isNone |-> TRUE, val |-> [json |-> <<>>]]
Some(v) == [isNone |-> FALSE, val |-> v]

\* keys.json: absent, or holding the JSON text c
NoFile == [exists |-> FALSE, content |-> [json |-> <<>>]]
File(c) == [exists |-> TRUE, content |-> c]

RECURSIVE SeqsUpTo(_, _)
SeqsUpTo(S, n) ==
    IF n = 0 THEN {<<>>}
    ELSE LET shorter == SeqsUpTo(S, n - 1)
         IN  shorter \cup {Append(s, x) : s \in {t \in shorter : Len(t) = n - 1}, x \in S}

(***************************************************************************)
(* Strings of the page                                                     *)
(***************************************************************************)
Stamp(d, h) == [form |-> "sp", d |-> d, h |-> h]
BadStamp == [form |-> "bad", d |-> 0, h |-> 0]

BlankLine(ws) == [ws |-> ws, kind |-> "blank", parts |-> <<>>, text |-> ""]
RangeLine(ws, parts) == [ws |-> ws, kind |-> "range", parts |-> parts, text |-> ""]
TextLine(ws, t) == [ws |-> ws, kind |-> "text", parts |-> <<>>, text |-> t]

\* str.strip() of one line
strip(line) == [line EXCEPT !.ws = FALSE]

\* " - " in line
HasSeparator(line) == line.kind = "range"

\* pre_element.text.strip().split("\n"): the block's text loses its leading
\* and trailing whitespace (whole blank lines included) before it is split;
\* an all-blank text splits into one empty line.
RECURSIVE DropLeadingBlank(_)
DropLeadingBlank(ls) ==
    IF ls = <<>> THEN <<>>
    ELSE IF Head(ls).kind = "blank" THEN DropLeadingBlank(Tail(ls))
    ELSE ls

RECURSIVE DropTrailingBlank(_)
DropTrailingBlank(ls) ==
    IF ls = <<>> THEN <<>>
    ELSE IF ls[Len(ls)].kind = "blank" THEN DropTrailingBlank(SubSeq(ls, 1, Len(ls) - 1))
    ELSE ls

StripAndSplit(text) ==
    LET core == DropTrailingBlank(DropLeadingBlank(text))
    IN  IF core = <<>> THEN <<BlankLine(FALSE)>> ELSE core

(***************************************************************************)
(* parse_html_content                                                      *)
(***************************************************************************)
\* current_date_range = None
NoRange == [ws |-> FALSE, kind |-> "none", parts |-> <<>>, text |-> ""]

RawEntry(range, code) == [date_range |-> range.parts, activation_code |-> code.text]

\* The loop body of parse_html_content with the stale range kept when a
\* second range line arrives (a plausible slip: the pending range is not
\* overwritten).
ParseLineKeepFirst(st, raw) ==
    LET line == strip(raw)
    IN  IF line.kind = "blank" THEN st
        ELSE IF HasSeparator(line)
             THEN IF st.current_date_range = NoRange
                  THEN [st EXCEPT !.current_date_range = line]
                  ELSE st
        ELSE IF st.current_date_range # NoRange
             THEN [result |-> Append(st.result, RawEntry(st.current_date_range, line)),
                   current_date_range |-> NoRange]
        ELSE st

\* One iteration of `for line in lines`; st is [result, current_date_range].
ParseLine(st, raw) ==
    LET line == strip(raw)
    IN  IF line.kind = "blank" THEN st
        ELSE IF HasSeparator(line)
             THEN [st EXCEPT !.current_date_range = line]
        ELSE IF st.current_date_range # NoRange
             THEN [result |-> Append(st.result, RawEntry(st.current_date_range, line)),
                   current_date_range |-> NoRange]
        ELSE st

RECURSIVE ParseLoop(_, _)
ParseLoop(st, lines) ==
    IF lines = <<>> THEN st.result
    ELSE ParseLoop(ParseLine(st, Head(lines)), Tail(lines))

\* page is [pre, lines]: whether <pre id="codes"> exists, and its text.
parse_html_content(page) ==
    IF ~page.pre THEN <<>>
    ELSE ParseLoop([result |-> <<>>, current_date_range |-> NoRange],
                   StripAndSplit(page.lines))

(***************************************************************************)
(* format_date, create_json_object                                         *)
(***************************************************************************)
\* datetime.strptime(date_str, "%Y-%m-%d %H:%M:%S") raises ValueError
StrptimeRaises(date_str) == date_str.form # "sp"

\* strptime(...).isoformat(): the same wall-clock value, "T" between date and time
format_date(date_str) == [form |-> "iso", d |-> date_str.d, h |-> date_str.h]

\* start_date, end_date = item["date_range"].split(" - ") raises ValueError
\* unless the split yields exactly two pieces; format_date raises on a
\* piece strptime rejects.
ItemRaises(item) ==
    \/ Len(item.date_range) # 2
    \/ StrptimeRaises(item.date_range[1])
    \/ StrptimeRaises(item.date_range[2])

FormatItem(item) ==
    [start_date |-> format_date(item.date_range[1]),
     end_date |-> format_date(item.date_range[2]),
     activation_code |-> item.activation_code]

\* json.dumps(formatted_data, indent=2) and json.loads: the JSON text of a
\* list of objects is carried as [json |-> the list].
json_dumps(data) == [json |-> data]
json_loads(text) == text.json

\* create_json_object that skips the entries it cannot format
CreateJsonSkipMalformed(parsed) ==
    LET good == SelectSeq(parsed, LAMBDA item : ~ItemRaises(item))
    IN  [raised |-> "none",
         value |-> json_dumps([i \in 1..Len(good) |-> FormatItem(good[i])])]

\* [raised, value]: raised names the exception that left the function.
create_json_object(parsed) ==
    IF \E i \in 1..Len(parsed) : ItemRaises(parsed[i])
    THEN [raised |-> "ValueError", value |-> json_dumps(<<>>)]
    ELSE [raised |-> "none",
          value |-> json_dumps([i \in 1..Len(parsed) |-> FormatItem(parsed[i])])]

(***************************************************************************)
(* convert_to_utc and the selection loop of main                           *)
(***************************************************************************)
\* Hours since day 0 of a datetime's own fields
Hours(dt) == dt.d * HoursPerDay + dt.h

\* convert_to_utc with the offset added instead of subtracted
ConvertWrongSign(date_string) ==
    LET t == Hours(date_string) + OffsetHours
    IN  [d |-> t \div HoursPerDay, h |-> t % HoursPerDay]

\* fromisoformat(date_string).replace(tzinfo=timezone(timedelta(hours=8)))
\*     .astimezone(timezone.utc): the fields of the same instant in UTC.
convert_to_utc(date_string) ==
    LET t == Hours(date_string) - OffsetHours
    IN  [d |-> t \div HoursPerDay, h |-> t % HoursPerDay]

\* a <= b on aware datetimes of the same zone: field by field
DtLe(a, b) == a.d < b.d \/ (a.d = b.d /\ a.h <= b.h)

\* The window test with the end bound exclusive
InWindowHalfOpen(item, current_time_utc) ==
    LET start_time == convert_to_utc(item.start_date)
        end_time == convert_to_utc(item.end_date)
    IN  DtLe(start_time, current_time_utc)
        /\ DtLe(current_time_utc, end_time) /\ current_time_utc # end_time

\* current_time_utc >= start_time and current_time_utc <= end_time
InWindow(item, current_time_utc) ==
    LET start_time == convert_to_utc(item.start_date)
        end_time == convert_to_utc(item.end_date)
    IN  DtLe(start_time, current_time_utc) /\ DtLe(current_time_utc, end_time)

\* for item in cached_data: ... break
RECURSIVE SelectLoop(_, _)
SelectLoop(items, current_time_utc) ==
    IF items = <<>> THEN None
    ELSE IF InWindow(Head(items), current_time_utc)
         THEN Head(items).activation_code
    ELSE SelectLoop(Tail(items), current_time_utc)

(***************************************************************************)
(* is_filecxx_running                                                      *)
(***************************************************************************)
\* A process is [name, err]: err says process.name() raises NoSuchProcess,
\* AccessDenied or ZombieProcess.
Proc(name) == [name |-> name, err |-> FALSE]
ErrProc == [name |-> "", err |-> TRUE]

\* str.lower() on the names that occur
lower(name) ==
    CASE name = "FileU.exe" -> "fileu.exe"
      [] name = "FILEU.EXE" -> "fileu.exe"
      [] OTHER -> name

RECURSIVE is_filecxx_running(_)
is_filecxx_running(ps) ==
    IF ps = <<>> THEN FALSE
    ELSE IF Head(ps).err THEN FALSE            \* except ...: break
    ELSE IF lower(Head(ps).name) = "fileu.exe" THEN TRUE
    ELSE is_filecxx_running(Tail(ps))

(***************************************************************************)
(* build_cached_data, write_keys_to_file, insert_key_automatically         *)
(***************************************************************************)
\* What one call yields: the value returned, the exception that left it
\* uncaught, the message boxes it showed, its parsed_data, the GETs issued.
BuildResult(ret, raised, shown, parsed) ==
    [ret |-> ret, raised |-> raised, alerts |-> shown, parsed |-> parsed, gets |-> 1]

\* response.status: "error" is a RequestException from requests.get or
\* raise_for_status; "non200" passes raise_for_status with a status other
\* than 200 and falls off the end of the function; "ok" is a 200.
build_cached_data(resp) ==
    CASE resp.status = "error" ->
            BuildResult(NoneText, "none", <<"connect_failed">>, <<>>)
      [] resp.status = "non200" ->
            BuildResult(NoneText, "none", <<>>, <<>>)
      [] OTHER ->
            LET parsed == parse_html_content(resp.page)
                json_object == create_json_object(parsed)
            IN  IF json_object.raised # "none"
                THEN BuildResult(NoneText, json_object.raised, <<>>, parsed)
                ELSE BuildResult(Some(json_object.value), "none", <<>>, parsed)

\* write_keys_to_file without its try/except: the error leaves the function
WriteKeysUncaught(keys_data, writable, file) ==
    IF writable
    THEN [file |-> File(keys_data), raised |-> "none", alerts |-> <<>>,
          writes |-> <<[target |-> "keys.json", text |-> "json"]>>]
    ELSE [file |-> file, raised |-> "PermissionError", alerts |-> <<>>,
          writes |-> <<>>]

\* [file, raised, alerts, writes]: keys.json afterwards, the exception that
\* left the function, the message boxes shown, the writes made.
write_keys_to_file(keys_data, writable, file) ==
    IF writable
    THEN [file |-> File(keys_data), raised |-> "none", alerts |-> <<>>,
          writes |-> <<[target |-> "keys.json", text |-> "json"]>>]
    ELSE [file |-> file, raised |-> "none", alerts |-> <<"write_failed">>,
          writes |-> <<>>]

Gui(act, arg) == [act |-> act, arg |-> arg]

\* pyautogui.typewrite(f"{correct_code}\n"): the code's characters, then Enter
typewrite_line(code) == <<Gui("typewrite", code), Gui("press", "enter")>>

\* insert_key_automatically from window.activate() on
InjectKeys(window, code) ==
    <<Gui("activate", window), Gui("click", window),
      Gui("hotkey", "ctrl+a"), Gui("hotkey", "backspace")>>
    \o typewrite_line(code)

\* Manual delivery that writes key.txt and leaves the clipboard empty
ManualDeliveryNoClipboard(code) == [keyTxt |-> code, clipboard |-> ""]

\* with open("key.txt", "w") as f: f.write(correct_code); pyperclip.copy(...)
ManualDelivery(code) == [keyTxt |-> code, clipboard |-> code]

(***************************************************************************)
(* The inputs of a run                                                     *)
(***************************************************************************)
\* Wall-clock stamps of the page (UTC+8): 03:00, 08:00 and 20:00 of day 1
S1 == Stamp(1, 3)
S2 == Stamp(1, 8)
S3 == Stamp(1, 20)
Stamps == {S1, S2, S3}
Codes == {"A", "B"}

\* Instants main may read as now (UTC)
Utc(d, h) == [d |-> d, h |-> h]
NowSet == {Utc(0, 19), Utc(0, 20), Utc(1, 0), Utc(1, 5), Utc(1, 12), Utc(1, 13)}

\* The page that lists the entries es, a range line and a code line each
RECURSIVE LinesOf(_)
LinesOf(es) ==
    IF es = <<>> THEN <<>>
    ELSE <<RangeLine(FALSE, Head(es).date_range), TextLine(FALSE, Head(es).activation_code)>>
         \o LinesOf(Tail(es))

Page(lines) == [pre |-> TRUE, lines |-> lines]
NoPre == [pre |-> FALSE, lines |-> <<>>]
Ok(page) == [status |-> "ok", page |-> page]
Failed(status) == [status |-> status, page |-> NoPre]

\* Lines of the parser's inputs
ParserLines ==
    {BlankLine(FALSE), BlankLine(TRUE),
     RangeLine(FALSE, <<S1, S2>>), RangeLine(TRUE, <<S2, S3>>),
     TextLine(FALSE, "A"), TextLine(TRUE, "B")}
ParserPages == {NoPre} \cup {Page(ls) : ls \in SeqsUpTo(ParserLines, MaxLines)}

\* Entries of the selector's inputs: every ordered pair of stamps, so
\* overlapping, unsorted and reversed windows all occur
SelectorEntries ==
    {[date_range |-> <<a, b>>, activation_code |-> c] : a \in Stamps, b \in Stamps, c \in Codes}

\* Entries of the pages a whole run is fed
MainEntries ==
    {[date_range |-> <<S1, S3>>, activation_code |-> "A"],
     [date_range |-> <<S2, S3>>, activation_code |-> "B"],
     [date_range |-> <<BadStamp, S3>>, activation_code |-> "A"],
     [date_range |-> <<S1, S2, S3>>, activation_code |-> "B"]}
MainResponses ==
    {Failed("error"), Failed("non200"), Ok(NoPre)}
    \cup {Ok(Page(LinesOf(es))) : es \in SeqsUpTo(MainEntries, MaxEntries)}
MainNows == {Utc(0, 19), Utc(1, 5), Utc(1, 13)}

ProcNames == {"fileu.exe", "FileU.exe", "explorer.exe"}
ProcSet == {Proc(n) : n \in ProcNames} \cup {ErrProc}
MainProcLists ==
    {<<>>, <<Proc("explorer.exe"), Proc("FileU.exe")>>, <<ErrProc, Proc("fileu.exe")>>,
     <<Proc("explorer.exe")>>}
WindowLists == {<<>>, <<"File Centipede - Activation code">>}

\* A keys.json left by an earlier run, whose window holds at every instant
OldFile ==
    File(json_dumps(<<[start_date |-> format_date(Stamp(0, 0)),
                       end_date |-> format_date(Stamp(9, 0)),
                       activation_code |-> "OLD"]>>))

(***************************************************************************)
(* main                                                                    *)
(***************************************************************************)
\* What a finished run leaves for comparison with the next one
NoRun == [ran |-> FALSE]
Outcome ==
    [ran |-> TRUE, existed |-> ~(\E i \in 1..Len(polls) : polls[i] = "keys.json missing"),
     writable |-> fsWritable, pc |-> pc, exc |-> exc, gets |-> gets,
     cached_data |-> cached_data, correct_code |-> correct_code, gui |-> gui,
     alerts |-> alerts, writes |-> writes, keysFile |-> keysFile,
     keyTxt |-> keyTxt, clipboard |-> clipboard]

\* The state at the top of main, the files and the clipboard aside
Fresh ==
    /\ pc = "start"
    /\ parsed_data = <<>>
    /\ temp_data = NoneText
    /\ cached_data = NoneList
    /\ correct_code = None
    /\ running = FALSE
    /\ writes = <<>>
    /\ polls = <<>>
    /\ gui = <<>>
    /\ alerts = <<>>
    /\ gets = 0
    /\ exc = "none"

Init ==
    /\ AUTOMATIC_MODE \in BOOLEAN
    /\ response \in MainResponses
    /\ now \in MainNows
    /\ procs \in MainProcLists
    /\ window_list \in WindowLists
    /\ fsWritable \in BOOLEAN
    /\ keysFile \in {NoFile, OldFile}
    /\ keyTxt = ""
    /\ clipboard = ""
    /\ prev = NoRun
    /\ Fresh

\* The branch for an existing keys.json as a cache hit: no GET, the file's
\* contents are the data
BuildFromCache(resp, file) ==
    [ret |-> Some(file.content), raised |-> "none", alerts |-> <<>>,
     parsed |-> <<>>, gets |-> 0]

\* temp_data = build_cached_data() in the branch taken when keys.json exists
BuildWhenCached(resp, file) == build_cached_data(resp)

\* lines 314-317 and 319-322: build, then if temp_data: write and load
FetchAndStore(b) ==
    /\ parsed_data' = b.parsed
    /\ temp_data' = b.ret
    /\ gets' = gets + b.gets
    /\ IF b.raised # "none"
       THEN /\ exc' = b.raised
            /\ pc' = "crashed"
            /\ alerts' = alerts \o b.alerts
            /\ UNCHANGED <<keysFile, writes, cached_data>>
       ELSE IF b.ret.isNone
       THEN /\ pc' = "select"
            /\ alerts' = alerts \o b.alerts
            /\ UNCHANGED <<keysFile, writes, cached_data, exc>>
       ELSE LET w == write_keys_to_file(b.ret.val, fsWritable, keysFile)
            IN  /\ keysFile' = w.file
                /\ writes' = writes \o w.writes
                /\ alerts' = alerts \o b.alerts \o w.alerts
                /\ IF w.raised # "none"
                   THEN exc' = w.raised /\ pc' = "crashed" /\ UNCHANGED cached_data
                   ELSE /\ cached_data' = Some(json_loads(b.ret.val))
                        /\ pc' = "select"
                        /\ UNCHANGED exc
    /\ UNCHANGED <<env, fsWritable, correct_code, running, keyTxt, clipboard, gui, prev>>

\* if os.path.exists("./keys.json"): ...
MainCacheExists ==
    /\ pc = "start"
    /\ keysFile.exists
    /\ polls' = Append(polls, "keys.json exists")
    /\ FetchAndStore(BuildWhenCached(response, keysFile))

\* else: ...
MainCacheMissing ==
    /\ pc = "start"
    /\ ~keysFile.exists
    /\ polls' = Append(polls, "keys.json missing")
    /\ FetchAndStore(build_cached_data(response))

\* lines 325-334: read the clock, scan cached_data
Select ==
    /\ pc = "select"
    /\ IF cached_data.isNone
       THEN exc' = "TypeError" /\ pc' = "crashed" /\ UNCHANGED correct_code
       ELSE /\ correct_code' = SelectLoop(cached_data.val, now)
            /\ pc' = "deliver"
            /\ UNCHANGED exc
    /\ UNCHANGED <<env, fsWritable, keysFile, writes, polls, parsed_data, temp_data,
                   cached_data, running, keyTxt, clipboard, gui, alerts, gets, prev>>

\* if not correct_code: msg_alert(...); return
NotifyNoCode ==
    /\ pc = "deliver"
    /\ correct_code = None
    /\ alerts' = Append(alerts, "no_code")
    /\ pc' = "done"
    /\ UNCHANGED <<env, fsWritable, keysFile, writes, polls, locals, keyTxt, clipboard,
                   gui, gets, exc, prev>>

\* else: write key.txt, copy to the clipboard, msg_alert(...)
DeliverManual ==
    /\ pc = "deliver"
    /\ correct_code # None
    /\ ~AUTOMATIC_MODE
    /\ LET m == ManualDelivery(correct_code)
       IN  /\ keyTxt' = m.keyTxt
           /\ clipboard' = m.clipboard
           /\ writes' = writes \o <<[target |-> "key.txt", text |-> m.keyTxt],
                                    [target |-> "clipboard", text |-> m.clipboard]>>
    /\ alerts' = Append(alerts, "copied")
    /\ pc' = "done"
    /\ UNCHANGED <<env, fsWritable, keysFile, polls, locals, gui, gets, exc, prev>>

\* if AUTOMATIC_MODE: insert_key_automatically(correct_code): the process check
CheckProcess ==
    /\ pc = "deliver"
    /\ correct_code # None
    /\ AUTOMATIC_MODE
    /\ running' = is_filecxx_running(procs)
    /\ polls' = Append(polls, "process")
    /\ IF running'
       THEN pc' = "check_window" /\ UNCHANGED alerts
       ELSE pc' = "done" /\ alerts' = Append(alerts, "not_running")
    /\ UNCHANGED <<env, fsWritable, keysFile, writes, parsed_data, temp_data, cached_data,
                   correct_code, keyTxt, clipboard, gui, gets, exc, prev>>

\* window_list = gw.getWindowsWithTitle(...); if len(window_list) == 0: ...
CheckWindow ==
    /\ pc = "check_window"
    /\ polls' = Append(polls, "window")
    /\ IF Len(window_list) = 0
       THEN pc' = "done" /\ alerts' = Append(alerts, "no_window")
       ELSE pc' = "inject" /\ UNCHANGED alerts
    /\ UNCHANGED <<env, fsWritable, keysFile, writes, locals, keyTxt, clipboard, gui,
                   gets, exc, prev>>

\* window = window_list[0]; activate, click, select all, delete, type
Inject ==
    /\ pc = "inject"
    /\ gui' = gui \o InjectKeys(window_list[1], correct_code)
    /\ pc' = "done"
    /\ UNCHANGED <<env, fsWritable, keysFile, writes, polls, locals, keyTxt, clipboard,
                   alerts, gets, exc, prev>>

\* The tool is started once more on the same page, clock and desktop; in
\* between, keys.json may have been left, deleted or replaced, and the
\* directory may have changed its permissions.
Rerun ==
    /\ pc \in {"done", "crashed"}
    /\ ~prev.ran
    /\ prev' = Outcome
    /\ keysFile' \in {keysFile, NoFile, OldFile}
    /\ fsWritable' \in BOOLEAN
    /\ pc' = "start"
    /\ parsed_data' = <<>>
    /\ temp_data' = NoneText
    /\ cached_data' = NoneList
    /\ correct_code' = None
    /\ running' = FALSE
    /\ writes' = <<>>
    /\ polls' = <<>>
    /\ gui' = <<>>
    /\ alerts' = <<>>
    /\ gets' = 0
    /\ exc' = "none"
    /\ UNCHANGED <<env, keyTxt, clipboard>>

Next ==
    \/ MainCacheExists
    \/ MainCacheMissing
    \/ Select
    \/ NotifyNoCode
    \/ DeliverManual
    \/ CheckProcess
    \/ CheckWindow
    \/ Inject
    \/ Rerun

Spec == Init /\ [][Next]_vars

(***************************************************************************)
(* parse_html_content on its own: the run stands at line 193, the GET      *)
(* answered 200, and the call is made.                                     *)
(***************************************************************************)
InitParser ==
    /\ AUTOMATIC_MODE = FALSE
    /\ response \in {Ok(p) : p \in ParserPages}
    /\ now = Utc(1, 5)
    /\ procs = <<>>
    /\ window_list = <<>>
    /\ fsWritable = TRUE
    /\ keysFile = NoFile
    /\ keyTxt = ""
    /\ clipboard = ""
    /\ prev = NoRun
    /\ pc = "parse"
    /\ parsed_data = <<>>
    /\ temp_data = NoneText
    /\ cached_data = NoneList
    /\ correct_code = None
    /\ running = FALSE
    /\ writes = <<>>
    /\ polls = <<"keys.json missing">>
    /\ gui = <<>>
    /\ alerts = <<>>
    /\ gets = 1
    /\ exc = "none"

ParseCall ==
    /\ pc = "parse"
    /\ parsed_data' = parse_html_content(response.page)
    /\ pc' = "parsed"
    /\ UNCHANGED <<env, fsWritable, keysFile, writes, polls, temp_data, cached_data,
                   correct_code, running, keyTxt, clipboard, gui, alerts, gets, exc, prev>>

NextParser == ParseCall

SpecParser == InitParser /\ [][NextParser]_vars

(***************************************************************************)
(* The selection loop on its own: the run stands at line 325 with the      *)
(* entries es fetched, written and loaded.                                 *)
(***************************************************************************)
Loaded(es) ==
    LET formatted == [i \in 1..Len(es) |-> FormatItem(es[i])]
    IN  /\ response = Ok(Page(LinesOf(es)))
        /\ parsed_data = es
        /\ temp_data = Some(json_dumps(formatted))
        /\ cached_data = Some(formatted)
        /\ keysFile = File(json_dumps(formatted))
        /\ writes = <<[target |-> "keys.json", text |-> "json"]>>
        /\ polls = <<"keys.json missing">>
        /\ fsWritable = TRUE
        /\ gets = 1
        /\ exc = "none"
        /\ alerts = <<>>
        /\ gui = <<>>
        /\ keyTxt = ""
        /\ clipboard = ""
        /\ prev = NoRun

InitSelector ==
    /\ AUTOMATIC_MODE = FALSE
    /\ now \in NowSet
    /\ procs = <<>>
    /\ window_list = <<>>
    /\ \E es \in SeqsUpTo(SelectorEntries, MaxWindows) : Loaded(es)
    /\ pc = "select"
    /\ correct_code = None
    /\ running = FALSE

NextSelector == Select

SpecSelector == InitSelector /\ [][NextSelector]_vars

(***************************************************************************)
(* is_filecxx_running on its own: automatic mode, a code selected, the     *)
(* run enters insert_key_automatically.                                    *)
(***************************************************************************)
InitProcess ==
    /\ AUTOMATIC_MODE = TRUE
    /\ now = Utc(1, 5)
    /\ procs \in SeqsUpTo(ProcSet, MaxProcs)
    /\ window_list \in WindowLists
    /\ Loaded(<<[date_range |-> <<S1, S3>>, activation_code |-> "A"]>>)
    /\ pc = "deliver"
    /\ correct_code = "A"
    /\ running = FALSE

NextProcess == CheckProcess

SpecProcess == InitProcess /\ [][NextProcess]_vars

(***************************************************************************)
(* Vocabulary of the claims                                                *)
(***************************************************************************)
Terminal == pc \in {"done", "crashed"}
Has(seq, x) == \E i \in 1..Len(seq) : seq[i] = x
Wrote(target) == \E i \in 1..Len(writes) : writes[i].target = target
Min(S) == CHOOSE x \in S : \A y \in S : x <= y

\* The windows the selector scans, as UTC instants in hours
Windows == cached_data.val
UtcStart(i) == Hours(convert_to_utc(Windows[i].start_date))
UtcEnd(i) == Hours(convert_to_utc(Windows[i].end_date))
Matching == {i \in 1..Len(Windows) : UtcStart(i) <= Hours(now) /\ Hours(now) <= UtcEnd(i)}

\* C1: once the selection loop has run, correct_code is the code of the
\* first window in sequence order with start <= now <= end (both bounds
\* inclusive), and None when no window matches or the sequence is empty.
C1_FirstMatchWins ==
    pc = "deliver" =>
        IF Matching = {} THEN correct_code = None
        ELSE correct_code = Windows[Min(Matching)].activation_code

\* Two overlapping windows with different codes both match, now sits on the
\* end bound of the first, and the first one's code was selected.
C1_Witness ==
    /\ pc = "deliver"
    /\ Len(Windows) = 2
    /\ Matching = {1, 2}
    /\ Windows[1].activation_code # Windows[2].activation_code
    /\ Hours(now) = UtcEnd(1)
    /\ UtcStart(2) < UtcStart(1)
    /\ correct_code = Windows[1].activation_code

\* The block's lines after trimming, blank lines skipped
Trimmed(lines) == LET kept == SelectSeq(lines, LAMBDA l : l.kind # "blank")
                  IN  [i \in 1..Len(kept) |-> strip(kept[i])]
BlockLines == Trimmed(response.page.lines)
\* Range lines whose next non-blank line is not a range line
PairAt == {i \in 1..(Len(BlockLines) - 1) :
              BlockLines[i].kind = "range" /\ BlockLines[i + 1].kind # "range"}
\* The k-th smallest member of PairAt
KthPair(k) == CHOOSE i \in PairAt : Cardinality({j \in PairAt : j <= i}) = k
Alternating == /\ Len(BlockLines) % 2 = 0
               /\ \A i \in 1..Len(BlockLines) :
                      (BlockLines[i].kind = "range") <=> (i % 2 = 1)

\* C2: parse_html_content emits exactly one entry (range, code) for each
\* range line whose next non-blank line is a non-range line, in source
\* order, and nothing else; a block of n alternating range/code pairs
\* yields n entries; a page without the block yields none.
C2_OneEntryPerPair ==
    pc = "parsed" =>
        IF ~response.page.pre THEN parsed_data = <<>>
        ELSE /\ Len(parsed_data) = Cardinality(PairAt)
             /\ \A k \in 1..Len(parsed_data) :
                    /\ parsed_data[k].date_range = BlockLines[KthPair(k)].parts
                    /\ parsed_data[k].activation_code = BlockLines[KthPair(k) + 1].text
             /\ Alternating => 2 * Len(parsed_data) = Len(BlockLines)

\* A stale range (a range line followed by a range line), a pair that is
\* emitted, and a trailing range with no code line, in one block whose raw
\* lines carry whitespace.
C2_Witness ==
    /\ pc = "parsed"
    /\ Len(BlockLines) = 4
    /\ BlockLines[1].kind = "range"
    /\ BlockLines[2].kind = "range"
    /\ BlockLines[1] # BlockLines[2]
    /\ BlockLines[3].kind = "text"
    /\ BlockLines[4].kind = "range"
    /\ \E i \in 1..Len(response.page.lines) : response.page.lines[i].ws
    /\ parsed_data = <<RawEntry(BlockLines[2], BlockLines[3])>>

\* C3: after a connection or HTTP error the run makes no retry, notifies
\* the user, writes nothing, selects nothing, injects nothing and ends by
\* an early return: no uncaught exception is raised.
C3_NetworkFailureReturns ==
    (response.status = "error" /\ pc # "start") =>
        /\ gets = 1
        /\ Has(alerts, "connect_failed")
        /\ writes = <<>>
        /\ gui = <<>>
        /\ correct_code = None
        /\ exc = "none"
        /\ pc # "crashed"

\* C4: key.txt, the clipboard and the foreign window are touched only after
\* the selector returned a code and only in the mode the flag chose; with
\* no matching window the user is notified and the run ends normally with
\* no delivery; manual mode leaves key.txt and the clipboard holding exactly
\* the selected code; automatic mode never writes them.
C4_DeliverySafety ==
    /\ (Wrote("key.txt") \/ Wrote("clipboard") \/ gui # <<>>) =>
           (correct_code # None /\ pc = "done")
    /\ gui # <<>> => AUTOMATIC_MODE
    /\ (Wrote("key.txt") \/ Wrote("clipboard")) => ~AUTOMATIC_MODE
    /\ (pc = "done" /\ correct_code = None) =>
           /\ Has(alerts, "no_code")
           /\ exc = "none"
           /\ ~Wrote("key.txt") /\ ~Wrote("clipboard") /\ gui = <<>>
           /\ ~Has(polls, "process") /\ ~Has(polls, "window")
    /\ (pc = "done" /\ correct_code # None /\ ~AUTOMATIC_MODE) =>
           /\ keyTxt = correct_code
           /\ clipboard = correct_code
           /\ gui = <<>>
           /\ ~Has(polls, "process") /\ ~Has(polls, "window")
    /\ AUTOMATIC_MODE => (keyTxt = "" /\ clipboard = "")

\* Manual mode delivered a selected code.
C4_Witness ==
    /\ pc = "done"
    /\ ~AUTOMATIC_MODE
    /\ correct_code \in Codes
    /\ keyTxt = correct_code
    /\ clipboard = correct_code
    /\ Wrote("key.txt")

\* What the page of this run parses and formats to
FreshJson == create_json_object(parse_html_content(response.page))
Existed == Has(polls, "keys.json exists")

\* C5: whether keys.json exists at startup changes nothing: every run
\* issues exactly one GET, a successful fetch overwrites keys.json with the
\* fetched data, the selector is fed the freshly parsed sequence, and two
\* runs that differ only in the file's pre-existence end alike; the old
\* contents are never used.
C5_CacheExistenceIrrelevant ==
    /\ gets = IF pc = "start" THEN 0 ELSE 1
    /\ (pc # "start" /\ ~temp_data.isNone /\ fsWritable) =>
           (keysFile = File(FreshJson.value) /\ Wrote("keys.json"))
    /\ ~cached_data.isNone => cached_data.val = FreshJson.value.json
    /\ correct_code # "OLD"
    /\ (Terminal /\ prev.ran /\ prev.writable = fsWritable) =>
           /\ prev.pc = pc
           /\ prev.exc = exc
           /\ prev.gets = gets
           /\ prev.cached_data = cached_data
           /\ prev.correct_code = correct_code
           /\ prev.gui = gui
           /\ prev.alerts = alerts
           /\ prev.writes = writes
           /\ prev.keyTxt = keyTxt
           /\ prev.clipboard = clipboard
           /\ (Wrote("keys.json") => prev.keysFile = keysFile)

\* A run that found keys.json (holding another code) and a run that did
\* not have both delivered the code of the page.
C5_Witness ==
    /\ pc = "done"
    /\ prev.ran
    /\ prev.writable = fsWritable
    /\ prev.existed # Existed
    /\ Existed
    /\ correct_code \in Codes
    /\ Wrote("keys.json")

\* An entry whose range does not split into exactly two pieces, or has a
\* piece that is no timestamp
Malformed(entry) ==
    \/ Len(entry.date_range) # 2
    \/ \E k \in 1..Len(entry.date_range) : entry.date_range[k].form = "bad"
PageEntries == parse_html_content(response.page)
PageMalformed ==
    /\ response.status = "ok"
    /\ \E i \in 1..Len(PageEntries) : Malformed(PageEntries[i])

TargetRunning == \E i \in 1..Len(procs) : ~procs[i].err /\ lower(procs[i].name) = "fileu.exe"
NoClicks(seq) == SelectSeq(seq, LAMBDA g : g.act # "click")

\* C7: in automatic mode each check is made once; if the target process is
\* not running or the window is not open the user is notified and nothing
\* is simulated; otherwise the window is focused, the field selected and
\* cleared, the code typed and then the activation key pressed, in that
\* order.
C7_AutomaticDelivery ==
    /\ \A i, j \in 1..Len(polls) : (polls[i] = polls[j]) => (i = j)
    /\ \A i, j \in 1..Len(polls) :
           (polls[i] = "window" /\ polls[j] = "process") => j < i
    /\ (pc = "done" /\ AUTOMATIC_MODE /\ correct_code # None) =>
           IF ~TargetRunning \/ window_list = <<>>
           THEN /\ gui = <<>>
                /\ (Has(alerts, "not_running") \/ Has(alerts, "no_window"))
           ELSE NoClicks(gui) =
                    <<Gui("activate", window_list[1]), Gui("hotkey", "ctrl+a"),
                      Gui("hotkey", "backspace"), Gui("typewrite", correct_code),
                      Gui("press", "enter")>>

\* C8: a failed write of keys.json is caught and reported, and the run goes
\* on from the in-memory data: it selects and delivers what a run whose
\* write succeeded selects and delivers.
C8_WriteFailureNonFatal ==
    /\ (pc # "start" /\ ~temp_data.isNone /\ ~fsWritable) =>
           /\ Has(alerts, "write_failed")
           /\ exc = "none"
           /\ ~Wrote("keys.json")
           /\ cached_data = Some(FreshJson.value.json)
    /\ (Terminal /\ ~temp_data.isNone /\ ~fsWritable) => pc = "done"
    /\ (Terminal /\ prev.ran /\ prev.writable # fsWritable) =>
           /\ prev.pc = pc
           /\ prev.exc = exc
           /\ prev.cached_data = cached_data
           /\ prev.correct_code = correct_code
           /\ prev.gui = gui
           /\ prev.keyTxt = keyTxt
           /\ prev.clipboard = clipboard

\* The write failed in this run and succeeded in the one before; both
\* delivered the same code.
C8_Witness ==
    /\ pc = "done"
    /\ ~fsWritable
    /\ Has(alerts, "write_failed")
    /\ prev.ran
    /\ prev.writable
    /\ correct_code \in Codes
    /\ prev.correct_code = correct_code
    /\ (keyTxt = correct_code \/ gui # <<>>)

\* Hours since day 0 of a wall-clock timestamp string
WallHours(ts) == ts.d * 24 + ts.h
WallMatching == {i \in 1..Len(Windows) :
                    /\ WallHours(Windows[i].start_date) <= Hours(now) + 8
                    /\ Hours(now) + 8 <= WallHours(Windows[i].end_date)}

\* C9: the UTC instant of a timestamp is the wall-clock value minus exactly
\* 8 hours, so distances and order of the boundaries are kept (24 hours for
\* a range from midnight to midnight), and a window matches now exactly
\* when now + 8 hours lies in the literal wall-clock range.
C9_EightHoursEarlier ==
    /\ Hours(convert_to_utc(format_date(Stamp(2, 0))))
         - Hours(convert_to_utc(format_date(Stamp(1, 0)))) = 24
    /\ \A i \in 1..Len(Windows) :
           /\ UtcStart(i) = WallHours(Windows[i].start_date) - 8
           /\ UtcEnd(i) = WallHours(Windows[i].end_date) - 8
           /\ UtcEnd(i) - UtcStart(i)
                = WallHours(Windows[i].end_date) - WallHours(Windows[i].start_date)
           /\ DtLe(convert_to_utc(Windows[i].start_date), convert_to_utc(Windows[i].end_date))
                <=> WallHours(Windows[i].start_date) <= WallHours(Windows[i].end_date)
    /\ pc = "deliver" =>
           IF WallMatching = {} THEN correct_code = None
           ELSE correct_code = Windows[Min(WallMatching)].activation_code

\* A window whose start falls on the previous UTC day was matched at an
\* instant of that previous day.
C9_Witness ==
    /\ pc = "deliver"
    /\ Len(Windows) >= 1
    /\ Windows[1].start_date.d = 1
    /\ convert_to_utc(Windows[1].start_date).d = 0
    /\ now.d = 0
    /\ correct_code = Windows[1].activation_code

\* C10: is_filecxx_running answers whether a process named fileu.exe
\* (case-insensitively) is in the list, also when some other process's name
\* cannot be read.
C10_ProcessCheck ==
    Has(polls, "process") => (running <=> TargetRunning)

====
